---------------------------- MODULE Spec2Model ----------------------------
(***************************************************************************)
(* gitus: a store of Git identity profiles kept in one JSON file, the      *)
(* validation of new profiles, and the switch of git's user.name and       *)
(* user.email to a stored profile.                                         *)
(*                                                                         *)
(* Strings are sequences of one-character strings, so that is_empty, len   *)
(* and the e-mail grammar are computed on the characters.  The backing     *)
(* file is its content class (absent, blank, JSON array, anything else)    *)
(* with the layout of the text and the profiles the text denotes.          *)
(***************************************************************************)
EXTENDS Integers, Sequences, FiniteSets, TLC

VARIABLES
    file,     \* content of <home>/user_profiles.json
    cwdInRepo,\* whether the working directory is inside a Git work tree
    git,      \* git's configuration: [name, email]
    last,     \* record of the most recent invocation of the tool
    pc,       \* interactive menu: where the menu session stands
    snap,     \* interactive menu: users loaded by the running menu action
    entered,  \* interactive menu: inputs the prompts have returned so far
    shown,    \* interactive menu: the last thing the session did and the Result of it
    mres,     \* interactive menu: result run_menu returned to main
    cpc,      \* concurrent invocations: position of each invocation
    cargs,    \* concurrent invocations: command line of each invocation
    cusers,   \* concurrent invocations: the local `users` vector of each
    cres,     \* concurrent invocations: result of each invocation
    wlog      \* concurrent invocations: the saves in the order they happened

vars == <<file, cwdInRepo, git, last, pc, snap, entered, shown, mres,
          cpc, cargs, cusers, cres, wlog>>

-----------------------------------------------------------------------------
(* Bounds of the model *)

\* most profiles a stored collection may hold before add_user is no longer run
MaxUsers == 2
\* most profiles in a backing file the model starts from
MaxInitUsers == 2
\* invocations of the tool running at the same time
NumProcs == 2

-----------------------------------------------------------------------------
(* Program constants *)

MAX_USERNAME_LENGTH == 30
MAX_EMAIL_LENGTH == 100
MAX_ALIAS_LENGTH == 30
BACK_OPTION == <<"b", "a", "c", "k">>

-----------------------------------------------------------------------------
(* Strings *)

Rep(c, n) == [i \in 1..n |-> c]

Trim(s) ==
    LET ws(c) == c \in {" ", "\n"}
        keep == {i \in 1..Len(s) : ~ws(s[i])}
    IN  IF keep = {} THEN <<>>
        ELSE LET lo == CHOOSE i \in keep : \A j \in keep : i <= j
                 hi == CHOOSE i \in keep : \A j \in keep : j <= i
             IN  SubSeq(s, lo, hi)

\* the strings the model types in
NameAl == <<"a", "l">>
NameBo == <<"b", "o">>
NameGit == <<"g">>
NameMax == Rep("n", MAX_USERNAME_LENGTH)
NameLong == Rep("n", MAX_USERNAME_LENGTH + 1)
MailAl == <<"a", "@", "x", ".", "c">>
MailBo == <<"b", "@", "x", ".", "c">>
MailGit == <<"g", "@", "x", ".", "c">>
MailBad == <<"a", "b">>
MailLong == <<"a", "@">> \o Rep("x", MAX_EMAIL_LENGTH - 1)
MailMax == <<"a", "@">> \o Rep("x", 63) \o <<".">> \o Rep("c", MAX_EMAIL_LENGTH - 66)
MailWide == <<"a", "@">> \o Rep("x", MAX_EMAIL_LENGTH - 2)
AliasW == <<"w">>
AliasH == <<"h">>
AliasMax == Rep("w", MAX_ALIAS_LENGTH)
AliasLong == Rep("w", MAX_ALIAS_LENGTH + 1)

-----------------------------------------------------------------------------
(* Errors and results *)

Ok == [kind |-> "Ok", msg |-> "", alias |-> <<>>]
Validation(m) == [kind |-> "Validation", msg |-> m, alias |-> <<>>]
UserNotFound(a) == [kind |-> "UserNotFound", msg |-> "", alias |-> a]
GitCommand == [kind |-> "GitCommand", msg |-> "", alias |-> <<>>]
SerdeJson == [kind |-> "SerdeJson", msg |-> "", alias |-> <<>>]
Io == [kind |-> "Io", msg |-> "", alias |-> <<>>]
Inquire == [kind |-> "Inquire", msg |-> "", alias |-> <<>>]
NotInGitRepository == [kind |-> "NotInGitRepository", msg |-> "", alias |-> <<>>]

IsOk(r) == r.kind = "Ok"

-----------------------------------------------------------------------------
(* Profiles and the backing file *)

GitUserProfile(u, e, a) == [git_username |-> u, git_email |-> e, user_alias |-> a]

FileAbsent == [kind |-> "absent", layout |-> "none", users |-> <<>>]
FileBlank(l) == [kind |-> "blank", layout |-> l, users |-> <<>>]
FileJson(l, us) == [kind |-> "json", layout |-> l, users |-> us]
FileGarbage == [kind |-> "garbage", layout |-> "none", users |-> <<>>]

\* the mutation of to_string_pretty that writes the compact layout
to_string_compact(us) == FileJson("compact", us)

\* serde_json::to_string_pretty: the one layout the program writes
to_string_pretty(us) == FileJson("pretty", us)

\* load_users: [res, users]
load_users(f) ==
    IF f.kind = "absent" THEN [res |-> Ok, users |-> <<>>]
    ELSE IF f.kind = "blank" THEN [res |-> Ok, users |-> <<>>]
    ELSE IF f.kind = "json" THEN [res |-> Ok, users |-> f.users]
    ELSE [res |-> SerdeJson, users |-> <<>>]

\* the mutation of save_users that appends to what the file holds by then
save_users_merging(f, us, ioOk) ==
    IF ioOk /\ us # <<>> /\ f.kind = "json"
    THEN [res |-> Ok, file |-> FileJson("pretty", Append(f.users, us[Len(us)]))]
    ELSE IF ioOk THEN [res |-> Ok, file |-> FileJson("pretty", us)]
    ELSE [res |-> Io, file |-> f]

\* save_users: [res, file]; ioOk is whether fs::write succeeds
save_users(f, us, ioOk) ==
    IF ioOk THEN [res |-> Ok, file |-> to_string_pretty(us)]
    ELSE [res |-> Io, file |-> f]

\* the mutation of check_if_users_exist that never objects
check_if_users_exist_skipped(us) == Ok

check_if_users_exist(us) ==
    IF us = <<>> THEN Validation("no users found") ELSE Ok

-----------------------------------------------------------------------------
(* Validation *)

\* ValidateEmail::validate_email of the validator crate, on the characters the
\* model uses: one "@", a user part of 1..64 characters without white space,
\* a domain of at most 255 characters made of non-empty labels of at most 63
\* characters separated by "." (a domain of one label is accepted).
validate_email(s) ==
    LET ats == {i \in 1..Len(s) : s[i] = "@"}
    IN  /\ Cardinality(ats) = 1
        /\ LET at == CHOOSE i \in ats : TRUE
               user == SubSeq(s, 1, at - 1)
               dom == SubSeq(s, at + 1, Len(s))
               dots == {0, Len(dom) + 1} \cup {i \in 1..Len(dom) : dom[i] = "."}
           IN  /\ Len(user) \in 1..64
               /\ \A i \in 1..Len(user) : user[i] \notin {" ", "\n"}
               /\ Len(dom) \in 1..255
               /\ \A i \in 1..Len(dom) : dom[i] \notin {" ", "\n"}
               /\ \A i \in dots : \A j \in dots :
                     (i < j /\ \A k \in dots : ~(i < k /\ k < j))
                        => j - i - 1 \in 1..63

\* the mutation of validate_input_username that forgets the stored usernames
validate_input_username_no_dup(name, existing_users) ==
    IF name = <<>> THEN Validation("Username cannot be empty")
    ELSE IF Len(name) > MAX_USERNAME_LENGTH THEN Validation("username too long")
    ELSE Ok

validate_input_username(name, existing_users) ==
    IF name = <<>> THEN Validation("Username cannot be empty")
    ELSE IF Len(name) > MAX_USERNAME_LENGTH THEN Validation("username too long")
    ELSE IF \E i \in 1..Len(existing_users) : existing_users[i].git_username = name
         THEN Validation("Username already exists")
    ELSE Ok

\* the mutation of validate_input_email that forgets the stored e-mails
validate_input_email_no_dup(email, existing_users) ==
    IF email = <<>> THEN Validation("Email cannot be empty")
    ELSE IF Len(email) > MAX_EMAIL_LENGTH THEN Validation("email too long")
    ELSE IF ~validate_email(email) THEN Validation("Invalid email format")
    ELSE Ok

validate_input_email(email, existing_users) ==
    IF email = <<>> THEN Validation("Email cannot be empty")
    ELSE IF Len(email) > MAX_EMAIL_LENGTH THEN Validation("email too long")
    ELSE IF ~validate_email(email) THEN Validation("Invalid email format")
    ELSE IF \E i \in 1..Len(existing_users) : existing_users[i].git_email = email
         THEN Validation("Email already exists")
    ELSE Ok

\* the mutation of validate_input_alias that forgets the reserved alias
validate_input_alias_no_reserved(alias, existing_users) ==
    IF alias = <<>> THEN Validation("Alias cannot be empty")
    ELSE IF Len(alias) > MAX_ALIAS_LENGTH THEN Validation("Alias too long")
    ELSE IF \E i \in 1..Len(existing_users) : existing_users[i].user_alias = alias
         THEN Validation("Alias already exists")
    ELSE Ok

validate_input_alias(alias, existing_users) ==
    IF alias = <<>> THEN Validation("Alias cannot be empty")
    ELSE IF Len(alias) > MAX_ALIAS_LENGTH THEN Validation("Alias too long")
    ELSE IF alias = BACK_OPTION THEN Validation("Alias cannot be 'back'")
    ELSE IF \E i \in 1..Len(existing_users) : existing_users[i].user_alias = alias
         THEN Validation("Alias already exists")
    ELSE Ok

-----------------------------------------------------------------------------
(* Git *)

GitCall(fn, key, value, ok) == [fn |-> fn, key |-> key, value |-> value, ok |-> ok]

\* set_git_config: [res, git, call]; ok is whether `git config key value` exits 0
set_git_config(g, key, value, ok) ==
    [res |-> IF ok THEN Ok ELSE GitCommand,
     git |-> IF ~ok THEN g
             ELSE IF key = "user.name" THEN [g EXCEPT !.name = value]
             ELSE [g EXCEPT !.email = value],
     call |-> GitCall("set", key, value, ok)]

\* get_git_user: [res, value, call]; the value is git's raw stdout, the
\* configured value followed by a line feed
get_git_user(g, key, ok) ==
    [res |-> IF ok THEN Ok ELSE GitCommand,
     value |-> IF ~ok THEN <<>>
               ELSE (IF key = "user.name" THEN g.name ELSE g.email) \o <<"\n">>,
     call |-> GitCall("get", key, <<>>, ok)]

\* is_inside_git_repo: whether git reports the working directory inside a work tree
is_inside_git_repo(inRepo) == inRepo

-----------------------------------------------------------------------------
(* The operations.  Each returns what it did:                              *)
(*   res   the Result it returned                                          *)
(*   file  the backing file afterwards                                     *)
(*   git   git's configuration afterwards                                  *)
(*   calls the git-config calls it issued, in order                        *)
(*   loads, saves  how many times it called load_users and save_users      *)
(*   out   what it printed on standard output                              *)
(* env is what the surroundings do to it: io (fs::write succeeds), set1,   *)
(* set2, get1, get2 (the git subprocess of that call exits 0).             *)

Did(res, f, g, calls, loads, saves, out) ==
    [res |-> res, file |-> f, git |-> g, calls |-> calls,
     loads |-> loads, saves |-> saves, out |-> out]

Line(tag, p) == [tag |-> tag, p |-> p]

\* the first stored profile with the alias: users.iter().find(..)
FindAlias(users, alias) ==
    LET hits == {i \in 1..Len(users) : users[i].user_alias = alias}
    IN  IF hits = {} THEN 0 ELSE CHOOSE i \in hits : \A j \in hits : i <= j

\* the mutation of Retain that removes the first entry with the alias only
Retain_first_only(users, alias) ==
    LET hits == {i \in 1..Len(users) : users[i].user_alias = alias}
    IN  IF hits = {} THEN users
        ELSE LET i == CHOOSE h \in hits : \A j \in hits : h <= j
             IN  SubSeq(users, 1, i - 1) \o SubSeq(users, i + 1, Len(users))

\* users.retain(|user| user.user_alias != alias)
Retain(users, alias) == SelectSeq(users, LAMBDA u : u.user_alias # alias)

\* the mutation of switch_user that looks the alias up without the test
\* for the reserved value
switch_user_back_unchecked(f, g, user_alias, env) ==
    LET ld == load_users(f)
        users == ld.users
        i == FindAlias(users, user_alias)
    IN  IF ~IsOk(ld.res) THEN Did(ld.res, f, g, <<>>, 1, 0, <<>>)
        ELSE IF ~IsOk(check_if_users_exist(users))
             THEN Did(check_if_users_exist(users), f, g, <<>>, 1, 0, <<>>)
        ELSE IF i = 0 THEN Did(UserNotFound(user_alias), f, g, <<>>, 1, 0, <<>>)
        ELSE LET s1 == set_git_config(g, "user.name", users[i].git_username, env.set1)
                 s2 == set_git_config(s1.git, "user.email", users[i].git_email, env.set2)
             IN  IF ~IsOk(s1.res) THEN Did(s1.res, f, s1.git, <<s1.call>>, 1, 0, <<>>)
                 ELSE IF ~IsOk(s2.res)
                      THEN Did(s2.res, f, s2.git, <<s1.call, s2.call>>, 1, 0, <<>>)
                 ELSE Did(Ok, f, s2.git, <<s1.call, s2.call>>, 1, 0,
                          <<Line("switched to user:", users[i])>>)

\* the mutation of switch_user that sets user.email before user.name
switch_user_email_first(f, g, user_alias, env) ==
    LET ld == load_users(f)
        users == ld.users
        i == FindAlias(users, user_alias)
    IN  IF ~IsOk(ld.res) THEN Did(ld.res, f, g, <<>>, 1, 0, <<>>)
        ELSE IF ~IsOk(check_if_users_exist(users))
             THEN Did(check_if_users_exist(users), f, g, <<>>, 1, 0, <<>>)
        ELSE IF user_alias = BACK_OPTION
             THEN Did(Validation("invalid alias for switching"), f, g, <<>>, 1, 0, <<>>)
        ELSE IF i = 0 THEN Did(UserNotFound(user_alias), f, g, <<>>, 1, 0, <<>>)
        ELSE LET s1 == set_git_config(g, "user.email", users[i].git_email, env.set1)
                 s2 == set_git_config(s1.git, "user.name", users[i].git_username, env.set2)
             IN  IF ~IsOk(s1.res) THEN Did(s1.res, f, s1.git, <<s1.call>>, 1, 0, <<>>)
                 ELSE IF ~IsOk(s2.res)
                      THEN Did(s2.res, f, s2.git, <<s1.call, s2.call>>, 1, 0, <<>>)
                 ELSE Did(Ok, f, s2.git, <<s1.call, s2.call>>, 1, 0,
                          <<Line("switched to user:", users[i])>>)

\* the mutation of switch_user that puts user.name back when user.email fails
switch_user_rollback(f, g, user_alias, env) ==
    LET ld == load_users(f)
        users == ld.users
        i == FindAlias(users, user_alias)
    IN  IF ~IsOk(ld.res) THEN Did(ld.res, f, g, <<>>, 1, 0, <<>>)
        ELSE IF ~IsOk(check_if_users_exist(users))
             THEN Did(check_if_users_exist(users), f, g, <<>>, 1, 0, <<>>)
        ELSE IF user_alias = BACK_OPTION
             THEN Did(Validation("invalid alias for switching"), f, g, <<>>, 1, 0, <<>>)
        ELSE IF i = 0 THEN Did(UserNotFound(user_alias), f, g, <<>>, 1, 0, <<>>)
        ELSE LET s1 == set_git_config(g, "user.name", users[i].git_username, env.set1)
                 s2 == set_git_config(s1.git, "user.email", users[i].git_email, env.set2)
                 s3 == set_git_config(s2.git, "user.name", g.name, TRUE)
             IN  IF ~IsOk(s1.res) THEN Did(s1.res, f, s1.git, <<s1.call>>, 1, 0, <<>>)
                 ELSE IF ~IsOk(s2.res)
                      THEN Did(s2.res, f, s3.git, <<s1.call, s2.call, s3.call>>, 1, 0, <<>>)
                 ELSE Did(Ok, f, s2.git, <<s1.call, s2.call>>, 1, 0,
                          <<Line("switched to user:", users[i])>>)

switch_user(f, g, user_alias, env) ==
    LET ld == load_users(f)
        users == ld.users
        i == FindAlias(users, user_alias)
    IN  IF ~IsOk(ld.res) THEN Did(ld.res, f, g, <<>>, 1, 0, <<>>)
        ELSE IF ~IsOk(check_if_users_exist(users))
             THEN Did(check_if_users_exist(users), f, g, <<>>, 1, 0, <<>>)
        ELSE IF user_alias = BACK_OPTION
             THEN Did(Validation("invalid alias for switching"), f, g, <<>>, 1, 0, <<>>)
        ELSE IF i = 0 THEN Did(UserNotFound(user_alias), f, g, <<>>, 1, 0, <<>>)
        ELSE LET s1 == set_git_config(g, "user.name", users[i].git_username, env.set1)
                 s2 == set_git_config(s1.git, "user.email", users[i].git_email, env.set2)
             IN  IF ~IsOk(s1.res) THEN Did(s1.res, f, s1.git, <<s1.call>>, 1, 0, <<>>)
                 ELSE IF ~IsOk(s2.res)
                      THEN Did(s2.res, f, s2.git, <<s1.call, s2.call>>, 1, 0, <<>>)
                 ELSE Did(Ok, f, s2.git, <<s1.call, s2.call>>, 1, 0,
                          <<Line("switched to user:", users[i])>>)

\* the mutation of add_user that validates the alias before the username
\* and the e-mail
add_user_alias_first(f, g, git_username, git_email, user_alias, env) ==
    LET ld == load_users(f)
        users == ld.users
        va == validate_input_alias(user_alias, users)
        vu == validate_input_username(git_username, users)
        ve == validate_input_email(git_email, users)
        pushed == Append(users, GitUserProfile(git_username, git_email, user_alias))
        sv == save_users(f, pushed, env.io)
    IN  IF ~IsOk(ld.res) THEN Did(ld.res, f, g, <<>>, 1, 0, <<>>)
        ELSE IF ~IsOk(va) THEN Did(va, f, g, <<>>, 1, 0, <<>>)
        ELSE IF ~IsOk(vu) THEN Did(vu, f, g, <<>>, 1, 0, <<>>)
        ELSE IF ~IsOk(ve) THEN Did(ve, f, g, <<>>, 1, 0, <<>>)
        ELSE IF ~IsOk(sv.res) THEN Did(sv.res, sv.file, g, <<>>, 1, 1, <<>>)
        ELSE Did(Ok, sv.file, g, <<>>, 1, 1, <<"added user">>)

add_user(f, g, git_username, git_email, user_alias, env) ==
    LET ld == load_users(f)
        users == ld.users
        vu == validate_input_username(git_username, users)
        ve == validate_input_email(git_email, users)
        va == validate_input_alias(user_alias, users)
        pushed == Append(users, GitUserProfile(git_username, git_email, user_alias))
        sv == save_users(f, pushed, env.io)
    IN  IF ~IsOk(ld.res) THEN Did(ld.res, f, g, <<>>, 1, 0, <<>>)
        ELSE IF ~IsOk(vu) THEN Did(vu, f, g, <<>>, 1, 0, <<>>)
        ELSE IF ~IsOk(ve) THEN Did(ve, f, g, <<>>, 1, 0, <<>>)
        ELSE IF ~IsOk(va) THEN Did(va, f, g, <<>>, 1, 0, <<>>)
        ELSE IF ~IsOk(sv.res) THEN Did(sv.res, sv.file, g, <<>>, 1, 1, <<>>)
        ELSE Did(Ok, sv.file, g, <<>>, 1, 1,
                 <<Line("added user", GitUserProfile(<<>>, <<>>, <<>>))>>)

\* the mutation of delete_user that saves before it compares the lengths
delete_user_saves_first(f, g, user_alias, env) ==
    LET ld == load_users(f)
        users == ld.users
        retained == Retain(users, user_alias)
        sv == save_users(f, retained, env.io)
    IN  IF ~IsOk(ld.res) THEN Did(ld.res, f, g, <<>>, 1, 0, <<>>)
        ELSE IF ~IsOk(check_if_users_exist(users))
             THEN Did(check_if_users_exist(users), f, g, <<>>, 1, 0, <<>>)
        ELSE IF ~IsOk(sv.res) THEN Did(sv.res, sv.file, g, <<>>, 1, 1, <<>>)
        ELSE IF Len(retained) = Len(users)
             THEN Did(UserNotFound(user_alias), sv.file, g, <<>>, 1, 1, <<>>)
        ELSE Did(Ok, sv.file, g, <<>>, 1, 1,
                 <<Line("deleted user", GitUserProfile(<<>>, <<>>, <<>>))>>)

delete_user(f, g, user_alias, env) ==
    LET ld == load_users(f)
        users == ld.users
        retained == Retain(users, user_alias)
        sv == save_users(f, retained, env.io)
    IN  IF ~IsOk(ld.res) THEN Did(ld.res, f, g, <<>>, 1, 0, <<>>)
        ELSE IF ~IsOk(check_if_users_exist(users))
             THEN Did(check_if_users_exist(users), f, g, <<>>, 1, 0, <<>>)
        ELSE IF Len(retained) = Len(users)
             THEN Did(UserNotFound(user_alias), f, g, <<>>, 1, 0, <<>>)
        ELSE IF ~IsOk(sv.res) THEN Did(sv.res, sv.file, g, <<>>, 1, 1, <<>>)
        ELSE Did(Ok, sv.file, g, <<>>, 1, 1,
                 <<Line("deleted user", GitUserProfile(<<>>, <<>>, <<>>))>>)

\* the mutation of show_current_user that loads the profiles and requires
\* some, as list_all_users does
show_current_user_checks_store(f, g, env) ==
    LET ld == load_users(f)
        g1 == get_git_user(g, "user.name", env.get1)
        g2 == get_git_user(g, "user.email", env.get2)
    IN  IF ~IsOk(ld.res) THEN Did(ld.res, f, g, <<>>, 1, 0, <<>>)
        ELSE IF ~IsOk(check_if_users_exist(ld.users))
             THEN Did(check_if_users_exist(ld.users), f, g, <<>>, 1, 0, <<>>)
        ELSE IF ~IsOk(g1.res) THEN Did(g1.res, f, g, <<g1.call>>, 1, 0, <<>>)
        ELSE IF ~IsOk(g2.res) THEN Did(g2.res, f, g, <<g1.call, g2.call>>, 1, 0, <<>>)
        ELSE Did(Ok, f, g, <<g1.call, g2.call>>, 1, 0,
                 <<Line("current user:",
                        GitUserProfile(Trim(g1.value), Trim(g2.value), <<>>))>>)

show_current_user(f, g, env) ==
    LET g1 == get_git_user(g, "user.name", env.get1)
        g2 == get_git_user(g, "user.email", env.get2)
    IN  IF ~IsOk(g1.res) THEN Did(g1.res, f, g, <<g1.call>>, 0, 0, <<>>)
        ELSE IF ~IsOk(g2.res) THEN Did(g2.res, f, g, <<g1.call, g2.call>>, 0, 0, <<>>)
        ELSE Did(Ok, f, g, <<g1.call, g2.call>>, 0, 0,
                 <<Line("current user:",
                        GitUserProfile(Trim(g1.value), Trim(g2.value), <<>>))>>)

list_all_users(f, g) ==
    LET ld == load_users(f)
        users == ld.users
    IN  IF ~IsOk(ld.res) THEN Did(ld.res, f, g, <<>>, 1, 0, <<>>)
        ELSE IF ~IsOk(check_if_users_exist(users))
             THEN Did(check_if_users_exist(users), f, g, <<>>, 1, 0, <<>>)
        ELSE Did(Ok, f, g, <<>>, 1, 0,
                 [i \in 1..Len(users) |-> Line("user", users[i])])

-----------------------------------------------------------------------------
(* One invocation of the tool from the command line *)

Cmd(name, u, e, a) == [name |-> name, u |-> u, e |-> e, a |-> a]

Env(io, set1, set2, get1, get2) ==
    [io |-> io, set1 |-> set1, set2 |-> set2, get1 |-> get1, get2 |-> get2]

\* run_app: the subcommand decides the operation
run_app(cmd, f, g, env) ==
    IF cmd.name = "switch" THEN switch_user(f, g, cmd.a, env)
    ELSE IF cmd.name = "add" THEN add_user(f, g, cmd.u, cmd.e, cmd.a, env)
    ELSE IF cmd.name = "delete" THEN delete_user(f, g, cmd.a, env)
    ELSE IF cmd.name = "current" THEN show_current_user(f, g, env)
    ELSE list_all_users(f, g)

\* main: runs run_app and prints its error, if any, on standard error
main(cmd, f, g, env) == run_app(cmd, f, g, env)

NoCmd == Cmd("none", <<>>, <<>>, <<>>)

Invocation(cmd, inRepo, f, g, d) ==
    [cmd |-> cmd, inRepo |-> inRepo, res |-> d.res,
     fileBefore |-> f, gitBefore |-> g,
     calls |-> d.calls, loads |-> d.loads, saves |-> d.saves, out |-> d.out]

NoInvocation ==
    [cmd |-> NoCmd, inRepo |-> TRUE, res |-> Ok,
     fileBefore |-> FileAbsent, gitBefore |-> [name |-> <<>>, email |-> <<>>],
     calls |-> <<>>, loads |-> 0, saves |-> 0, out |-> <<>>]

\* what the model types on the command line
Usernames == {<<>>, NameAl, NameBo}
Emails == {MailAl, MailBo}
Aliases == {AliasW, AliasH, BACK_OPTION}

\* `git config key value` writes the repository's configuration: outside a
\* work tree git refuses it
SetOutcomes(inRepo) == IF inRepo THEN {TRUE, FALSE} ELSE {FALSE}

\* fs::write can fail only in an invocation that gets as far as save_users
IoOutcomes(cmd, f, g) ==
    IF main(cmd, f, g, Env(TRUE, TRUE, TRUE, TRUE, TRUE)).saves = 0
    THEN {TRUE} ELSE {TRUE, FALSE}

Invoke(cmd, inRepo, env) ==
    LET d == main(cmd, file, git, env)
    IN  /\ d.file.kind = "json" => Len(d.file.users) <= MaxUsers
        /\ file' = d.file
        /\ git' = d.git
        /\ last' = Invocation(cmd, inRepo, file, git, d)
        /\ UNCHANGED <<cwdInRepo, pc, snap, entered, shown, mres,
                       cpc, cargs, cusers, cres, wlog>>

CmdSwitch ==
    \E a \in Aliases :
        \E set1 \in SetOutcomes(cwdInRepo), set2 \in SetOutcomes(cwdInRepo) :
            Invoke(Cmd("switch", <<>>, <<>>, a), cwdInRepo,
                   Env(TRUE, set1, set2, TRUE, TRUE))

CmdAdd ==
    \E u \in Usernames, e \in Emails, a \in Aliases :
        \E io \in IoOutcomes(Cmd("add", u, e, a), file, git) :
            Invoke(Cmd("add", u, e, a), cwdInRepo, Env(io, TRUE, TRUE, TRUE, TRUE))

CmdDelete ==
    \E a \in Aliases :
        \E io \in IoOutcomes(Cmd("delete", <<>>, <<>>, a), file, git) :
            Invoke(Cmd("delete", <<>>, <<>>, a), cwdInRepo,
                   Env(io, TRUE, TRUE, TRUE, TRUE))

CmdCurrent ==
    \E get1 \in BOOLEAN, get2 \in BOOLEAN :
        Invoke(Cmd("current", <<>>, <<>>, <<>>), cwdInRepo,
               Env(TRUE, TRUE, TRUE, get1, get2))

CmdList ==
    Invoke(Cmd("list", <<>>, <<>>, <<>>), cwdInRepo, Env(TRUE, TRUE, TRUE, TRUE, TRUE))

-----------------------------------------------------------------------------
(* The states the tool is started in *)

SeqsUpTo(S, n) == UNION {[1..k -> S] : k \in 0..n}

\* profiles of the backing files the model starts from; the file can be
\* edited by hand, so they include clashing fields and the alias "back"
InitProfiles ==
    {GitUserProfile(NameAl, MailAl, AliasW),
     GitUserProfile(NameBo, MailAl, AliasW),
     GitUserProfile(NameAl, MailBo, BACK_OPTION)}

InitFiles ==
    {FileAbsent, FileBlank("empty"), FileBlank("spaces"), FileGarbage}
    \cup {FileJson(l, us) : l \in {"pretty", "compact"},
                            us \in SeqsUpTo(InitProfiles, MaxInitUsers)}

InitGit == [name |-> NameGit, email |-> MailGit]

\* the last thing the menu session did: where it stood, what was typed,
\* the Result raised, and whether it was raised inside prompt_until_valid
Event(at, input, res, where) ==
    [at |-> at, input |-> input, res |-> res, where |-> where]

NoEvent == Event("shell", <<>>, Ok, "none")

MenuIdle ==
    /\ pc = "shell"
    /\ snap = <<>>
    /\ entered = <<>>
    /\ shown = NoEvent
    /\ mres = Ok

ConcIdle ==
    /\ cpc = <<>>
    /\ cargs = <<>>
    /\ cusers = <<>>
    /\ cres = <<>>
    /\ wlog = <<>>

Init ==
    /\ file \in InitFiles
    /\ cwdInRepo \in BOOLEAN
    /\ git = InitGit
    /\ last = NoInvocation
    /\ MenuIdle
    /\ ConcIdle

Next ==
    \/ CmdSwitch
    \/ CmdAdd
    \/ CmdDelete
    \/ CmdCurrent
    \/ CmdList

Spec == Init /\ [][Next]_vars

-----------------------------------------------------------------------------
(* Properties of one invocation, read off the record of the last one *)

\* the collection the last invocation found stored, and the one stored now
Before == load_users(last.fileBefore).users
After == load_users(file).users
Loadable(f) == IsOk(load_users(f).res)
Ran(name) == last.cmd.name = name

DupFree(us) ==
    \A i \in 1..Len(us) : \A j \in 1..Len(us) :
        i # j => /\ us[i].user_alias # us[j].user_alias
                 /\ us[i].git_username # us[j].git_username
                 /\ us[i].git_email # us[j].git_email

Clashes(us, u, e, a) ==
    \E i \in 1..Len(us) :
        \/ us[i].git_username = u
        \/ us[i].git_email = e
        \/ us[i].user_alias = a

\* C1: an invocation that finds a duplicate-free collection stored leaves a
\* duplicate-free collection stored (so from a duplicate-free file every
\* sequence of add_user and delete_user calls keeps alias, username and
\* e-mail unique), and an add_user whose username, e-mail or alias equals
\* that of a stored profile returns a Validation error and leaves the file
\* as it was.
C1_Uniqueness ==
    /\ (~Ran("none") /\ Loadable(last.fileBefore) /\ DupFree(Before)) =>
          (Loadable(file) /\ DupFree(After))
    /\ (Ran("add") /\ Loadable(last.fileBefore)
          /\ Clashes(Before, last.cmd.u, last.cmd.e, last.cmd.a)) =>
          /\ last.res.kind = "Validation"
          /\ file = last.fileBefore
          /\ last.saves = 0

\* the example of the specification: one profile stored, add_user with its
\* username and a fresh e-mail and alias has failed, one profile is stored
C1_Witness ==
    /\ Ran("add")
    /\ Before = <<GitUserProfile(NameAl, MailAl, AliasW)>>
    /\ last.cmd = Cmd("add", NameAl, MailBo, AliasH)
    /\ last.res = Validation("Username already exists")
    /\ Len(After) = 1

\* C2: delete_user of an alias no stored profile has, on a non-empty
\* collection, fails with UserNotFound carrying the alias, does not call
\* save_users and leaves the file as it was; the same call run again, any
\* number of times, gives the same error and the same file.
C2_DeleteMissing ==
    (Ran("delete") /\ Loadable(last.fileBefore) /\ Before # <<>>
       /\ FindAlias(Before, last.cmd.a) = 0) =>
        /\ last.res = UserNotFound(last.cmd.a)
        /\ last.saves = 0
        /\ file = last.fileBefore
        /\ \A io \in BOOLEAN :
              LET again == delete_user(file, git, last.cmd.a,
                                       Env(io, TRUE, TRUE, TRUE, TRUE))
              IN  /\ again.res = last.res
                  /\ again.file = file
                  /\ again.saves = 0

C2_Witness ==
    /\ Ran("delete")
    /\ last.fileBefore.kind = "json"
    /\ last.fileBefore.layout = "compact"
    /\ Before # <<>>
    /\ FindAlias(Before, last.cmd.a) = 0
    /\ last.res.kind = "UserNotFound"

\* the stored profiles switch_user can have taken the values from
Matches(us, a) == {i \in 1..Len(us) : us[i].user_alias = a}

SetCall(c, key, value) == c.fn = "set" /\ c.key = key /\ c.value = value

SwitchLooksUp ==
    /\ Ran("switch")
    /\ Loadable(last.fileBefore)
    /\ Before # <<>>
    /\ last.cmd.a # BACK_OPTION

\* C3 as stated: with a matching profile stored, switch_user issues exactly
\* two set calls, user.name then user.email, with that profile's values;
\* with none stored it fails with UserNotFound and issues no set call.
C3_AsStated ==
    SwitchLooksUp =>
        IF Matches(Before, last.cmd.a) # {}
        THEN \E i \in Matches(Before, last.cmd.a) :
                /\ Len(last.calls) = 2
                /\ SetCall(last.calls[1], "user.name", Before[i].git_username)
                /\ SetCall(last.calls[2], "user.email", Before[i].git_email)
        ELSE last.res = UserNotFound(last.cmd.a) /\ last.calls = <<>>

\* C3, amended: with a matching profile stored, switch_user first issues
\* set("user.name", username), and only if that call succeeds issues
\* set("user.email", e-mail) as its second and last call, both values from
\* the same matching profile; if the first call fails it is the only call.
\* With no matching profile it fails with UserNotFound and issues no call.
C3_SwitchCalls ==
    SwitchLooksUp =>
        IF Matches(Before, last.cmd.a) # {}
        THEN \E i \in Matches(Before, last.cmd.a) :
                /\ Len(last.calls) \in {1, 2}
                /\ SetCall(last.calls[1], "user.name", Before[i].git_username)
                /\ last.calls[1].ok <=> Len(last.calls) = 2
                /\ Len(last.calls) = 2 =>
                      SetCall(last.calls[2], "user.email", Before[i].git_email)
        ELSE last.res = UserNotFound(last.cmd.a) /\ last.calls = <<>>

\* a switch to the second of two stored profiles has run both calls
C3_Witness ==
    /\ SwitchLooksUp
    /\ Len(Before) = 2
    /\ Matches(Before, last.cmd.a) = {2}
    /\ Before[1].git_username # Before[2].git_username
    /\ Before[1].git_email # Before[2].git_email
    /\ Len(last.calls) = 2
    /\ last.res = Ok
    /\ git = [name |-> Before[2].git_username, email |-> Before[2].git_email]

EmptyStore(f) == f.kind \in {"absent", "blank"}

HasBack(us) == \E i \in 1..Len(us) : us[i].user_alias = BACK_OPTION

\* C5: add_user with the alias "back" fails with a Validation error and
\* leaves the file as it was, whatever the username, the e-mail and the
\* stored collection; and an add_user that finds no profile with the alias
\* "back" stored leaves none stored.
C5_ReservedAlias ==
    (Ran("add") /\ Loadable(last.fileBefore)) =>
        /\ last.cmd.a = BACK_OPTION =>
              /\ last.res.kind = "Validation"
              /\ last.saves = 0
              /\ file = last.fileBefore
        /\ ~HasBack(Before) => ~HasBack(After)

\* the alias is the only thing wrong with the call
C5_Witness ==
    /\ Ran("add")
    /\ last.cmd.a = BACK_OPTION
    /\ Before # <<>>
    /\ IsOk(validate_input_username(last.cmd.u, Before))
    /\ IsOk(validate_input_email(last.cmd.e, Before))
    /\ ~HasBack(Before)
    /\ last.res = Validation("Alias cannot be 'back'")

\* C6: outside a Git repository no operation runs: the invocation ends with
\* NotInGitRepository without loading or writing the profile file and
\* without a git-config call.
C6_NotInRepository ==
    (~last.inRepo /\ ~Ran("none")) =>
        /\ last.res = NotInGitRepository
        /\ last.loads = 0
        /\ last.saves = 0
        /\ last.calls = <<>>
        /\ file = last.fileBefore

\* C8: in switch_user, when set("user.name") succeeds and set("user.email")
\* fails the call returns the GitCommand error with user.name switched and
\* user.email as it was, and nothing is called after the failure; when
\* set("user.name") fails, set("user.email") is not attempted and both
\* values are as they were.
C8_HalfSwitch ==
    (Ran("switch") /\ last.calls # <<>>) =>
        /\ ~last.calls[1].ok =>
              /\ Len(last.calls) = 1
              /\ last.res = GitCommand
              /\ git = last.gitBefore
        /\ (last.calls[1].ok /\ Len(last.calls) >= 2 /\ ~last.calls[2].ok) =>
              /\ Len(last.calls) = 2
              /\ last.res = GitCommand
              /\ git.name = last.calls[1].value
              /\ git.email = last.gitBefore.email

C8_Witness ==
    /\ Ran("switch")
    /\ Len(last.calls) = 2
    /\ last.calls[1].ok
    /\ ~last.calls[2].ok
    /\ git.name # last.gitBefore.name
    /\ git.email # last.calls[2].value
    /\ last.res = GitCommand

-----------------------------------------------------------------------------
(* The store alone: save_users(load_users()), step by step *)

\* every profile the command line of the model can have stored
StoreProfiles ==
    {GitUserProfile(u, e, a) : u \in Usernames \ {<<>>}, e \in Emails, a \in Aliases}

StoreFiles ==
    {FileAbsent, FileBlank("empty"), FileBlank("spaces"), FileGarbage}
    \cup {FileJson(l, us) : l \in {"pretty", "compact"},
                            us \in SeqsUpTo(StoreProfiles, MaxInitUsers)}

InitStore ==
    /\ file \in StoreFiles
    /\ cwdInRepo = TRUE
    /\ git = InitGit
    /\ last = NoInvocation
    /\ pc = "store_start"
    /\ snap = <<>>
    /\ entered = <<>>
    /\ shown = NoEvent
    /\ mres = Ok
    /\ ConcIdle

\* let users = load_users()?
StoreLoad ==
    /\ pc = "store_start"
    /\ LET ld == load_users(file)
       IN  /\ pc' = IF IsOk(ld.res) THEN "store_loaded" ELSE "store_failed"
           /\ snap' = ld.users
           /\ mres' = ld.res
           /\ last' = [last EXCEPT !.cmd = Cmd("load", <<>>, <<>>, <<>>),
                                   !.fileBefore = file, !.loads = 1]
    /\ UNCHANGED <<file, cwdInRepo, git, entered, shown, cpc, cargs, cusers, cres, wlog>>

\* save_users(&users)?
StoreSave ==
    /\ pc = "store_loaded"
    /\ \E io \in BOOLEAN :
          LET sv == save_users(file, snap, io)
          IN  /\ pc' = IF IsOk(sv.res) THEN "store_saved" ELSE "store_failed"
              /\ file' = sv.file
              /\ mres' = sv.res
              /\ last' = [last EXCEPT !.saves = 1]
    /\ UNCHANGED <<cwdInRepo, git, snap, entered, shown, cpc, cargs, cusers, cres, wlog>>

NextStore == StoreLoad \/ StoreSave

SpecStore == InitStore /\ [][NextStore]_vars

\* C7 as stated: after save_users(load_users()) the file content equals the
\* content before the load, and loading again yields the collection loaded
\* first.
C7_AsStated ==
    pc = "store_saved" =>
        /\ file = last.fileBefore
        /\ load_users(file) = [res |-> Ok, users |-> snap]

\* C7, amended: after save_users(load_users()) loading again yields the
\* collection loaded first, same profiles in the same order; the file content
\* is what it was when the file was a pretty-printed JSON array, otherwise
\* (absent, blank, another layout) it now is the pretty-printed JSON array of
\* the loaded collection, "[]" for an absent or blank file.
C7_RoundTrip ==
    pc = "store_saved" =>
        /\ load_users(file) = [res |-> Ok, users |-> snap]
        /\ snap = load_users(last.fileBefore).users
        /\ (last.fileBefore.kind = "json" /\ last.fileBefore.layout = "pretty") =>
              file = last.fileBefore
        /\ file = [kind |-> "json", layout |-> "pretty", users |-> snap]
        /\ EmptyStore(last.fileBefore) => file.users = <<>>

\* a pretty-printed file of two profiles went through the round trip
C7_Witness ==
    /\ pc = "store_saved"
    /\ last.fileBefore.kind = "json"
    /\ last.fileBefore.layout = "pretty"
    /\ Len(snap) = 2
    /\ snap[1] # snap[2]
    /\ file = last.fileBefore

-----------------------------------------------------------------------------
(* Invocations of the tool running at the same time on the same file.      *)
(* Nothing locks the file: load_users, the work on the local vector and    *)
(* save_users of one invocation are separate steps, and each save          *)
(* overwrites the whole file.                                              *)

Procs == 1..NumProcs

\* the command lines of the concurrent invocations
ConcCmds ==
    {Cmd("add", NameAl, MailAl, AliasW),
     Cmd("add", NameBo, MailBo, AliasH),
     Cmd("add", NameAl, MailBo, AliasH),
     Cmd("delete", <<>>, <<>>, AliasW)}

ConcFiles ==
    {FileAbsent,
     FileJson("pretty", <<>>),
     FileJson("pretty", <<GitUserProfile(NameAl, MailAl, AliasW)>>),
     FileJson("pretty", <<GitUserProfile(NameBo, MailBo, AliasH)>>)}

InitConc ==
    /\ file \in ConcFiles
    /\ cwdInRepo = TRUE
    /\ git = InitGit
    /\ last = NoInvocation
    /\ MenuIdle
    /\ cpc = [p \in Procs |-> "load"]
    /\ cargs \in [Procs -> ConcCmds]
    /\ cusers = [p \in Procs |-> <<>>]
    /\ cres = [p \in Procs |-> Ok]
    /\ wlog = <<>>

ConcFrame == UNCHANGED <<cwdInRepo, git, last, pc, snap, entered, shown, mres, cargs>>

Finish(p, res) ==
    /\ cpc' = [cpc EXCEPT ![p] = "done"]
    /\ cres' = [cres EXCEPT ![p] = res]

\* let mut users = load_users()?
ConcLoad(p) ==
    /\ cpc[p] = "load"
    /\ LET ld == load_users(file)
       IN  IF IsOk(ld.res)
           THEN /\ cpc' = [cpc EXCEPT ![p] = "work"]
                /\ cusers' = [cusers EXCEPT ![p] = ld.users]
                /\ cres' = cres
           ELSE Finish(p, ld.res) /\ cusers' = cusers
    /\ UNCHANGED <<file, wlog>>
    /\ ConcFrame

\* add_user between load_users and save_users: the three validations and the push
ConcAddWork(p) ==
    /\ cpc[p] = "work"
    /\ cargs[p].name = "add"
    /\ LET users == cusers[p]
           vu == validate_input_username(cargs[p].u, users)
           ve == validate_input_email(cargs[p].e, users)
           va == validate_input_alias(cargs[p].a, users)
       IN  IF ~IsOk(vu) THEN Finish(p, vu) /\ cusers' = cusers
           ELSE IF ~IsOk(ve) THEN Finish(p, ve) /\ cusers' = cusers
           ELSE IF ~IsOk(va) THEN Finish(p, va) /\ cusers' = cusers
           ELSE /\ cusers' = [cusers EXCEPT ![p] =
                      Append(users, GitUserProfile(cargs[p].u, cargs[p].e, cargs[p].a))]
                /\ cpc' = [cpc EXCEPT ![p] = "save"]
                /\ cres' = cres
    /\ UNCHANGED <<file, wlog>>
    /\ ConcFrame

\* delete_user between load_users and save_users: the non-empty check, retain
\* and the comparison of the lengths
ConcDeleteWork(p) ==
    /\ cpc[p] = "work"
    /\ cargs[p].name = "delete"
    /\ LET users == cusers[p]
           retained == Retain(users, cargs[p].a)
       IN  IF ~IsOk(check_if_users_exist(users))
           THEN Finish(p, check_if_users_exist(users)) /\ cusers' = cusers
           ELSE IF Len(retained) = Len(users)
                THEN Finish(p, UserNotFound(cargs[p].a)) /\ cusers' = cusers
           ELSE /\ cusers' = [cusers EXCEPT ![p] = retained]
                /\ cpc' = [cpc EXCEPT ![p] = "save"]
                /\ cres' = cres
    /\ UNCHANGED <<file, wlog>>
    /\ ConcFrame

\* save_users(&users)?
ConcSave(p) ==
    /\ cpc[p] = "save"
    /\ \E io \in BOOLEAN :
          LET sv == save_users(file, cusers[p], io)
          IN  /\ file' = sv.file
              /\ Finish(p, sv.res)
              /\ wlog' = IF io THEN Append(wlog, p) ELSE wlog
    /\ UNCHANGED cusers
    /\ ConcFrame

NextConc ==
    \E p \in Procs :
        \/ ConcLoad(p)
        \/ ConcAddWork(p)
        \/ ConcDeleteWork(p)
        \/ ConcSave(p)

SpecConc == InitConc /\ [][NextConc]_vars

Profile(cmd) == GitUserProfile(cmd.u, cmd.e, cmd.a)
Stored(f, prof) == \E i \in 1..Len(f.users) : f.users[i] = prof
AddedOk(p) == cpc[p] = "done" /\ cargs[p].name = "add" /\ IsOk(cres[p])

\* C9: without a lock the file holds exactly what the invocation that saved
\* last wrote, the collection it had loaded with its own change; so when two
\* add_user invocations both return success and the one that saved last had
\* loaded before the other saved, the other's profile is not stored, and
\* neither caller was told of an error.
C9_LostUpdate ==
    /\ wlog # <<>> => file = FileJson("pretty", cusers[wlog[Len(wlog)]])
    /\ \A p \in Procs : \A q \in Procs :
          (/\ p # q
           /\ AddedOk(p)
           /\ AddedOk(q)
           /\ wlog # <<>>
           /\ wlog[Len(wlog)] = q
           /\ ~Stored([users |-> cusers[q]], Profile(cargs[p])))
          => /\ ~Stored(file, Profile(cargs[p]))
             /\ Stored(file, Profile(cargs[q]))

\* both add_user invocations returned success with profiles that clash in
\* nothing, and only one of the two profiles is stored
C9_Witness ==
    \E p \in Procs : \E q \in Procs :
        /\ p # q
        /\ \A r \in Procs : cpc[r] = "done"
        /\ AddedOk(p)
        /\ AddedOk(q)
        /\ ~Clashes(<<Profile(cargs[p])>>, cargs[q].u, cargs[q].e, cargs[q].a)
        /\ ~Stored(file, Profile(cargs[p]))
        /\ Stored(file, Profile(cargs[q]))

-----------------------------------------------------------------------------
(* The interactive menu: one action per input the user gives; the action   *)
(* runs the code up to the next prompt.  Meanwhile the tool can be run     *)
(* from another terminal.                                                  *)

\* what a Select or Text prompt returns: the input, or an InquireError
Typed(text) == [ok |-> TRUE, text |-> text]
Cancelled == [ok |-> FALSE, text |-> <<>>]

\* the mutation of prompt_until_valid that gives up on the first invalid input
prompt_until_valid_no_loop(typed, v) ==
    IF ~typed.ok THEN [to |-> "abort", res |-> Inquire]
    ELSE IF IsOk(v) THEN [to |-> "return", res |-> Ok]
    ELSE [to |-> "abort", res |-> v]

\* one round of the loop of prompt_until_valid; v is input_validation(&input)
prompt_until_valid(typed, v) ==
    IF ~typed.ok THEN [to |-> "abort", res |-> Inquire]
    ELSE IF IsOk(v) THEN [to |-> "return", res |-> Ok]
    ELSE IF v.kind = "Validation" THEN [to |-> "again", res |-> v]
    ELSE [to |-> "abort", res |-> v]

\* build_alias_list
build_alias_list(users) ==
    [i \in 1..Len(users) |-> users[i].user_alias] \o <<BACK_OPTION>>

\* the arms of run_menu: `?` returns the error from run_menu, Ok loops
run_menu_arm(res) == IF IsOk(res) THEN "select_action" ELSE "exited"

Prompts == {"prompt_username", "prompt_email", "prompt_alias"}

PromptNames == Usernames
PromptEmails == Emails \cup {MailBad}
PromptAliases == Aliases

MenuFrame == UNCHANGED <<cwdInRepo, last, cpc, cargs, cusers, cres, wlog>>

\* an action of the menu ended with res, raised outside a prompt
MenuArm(at, input, res) ==
    /\ shown' = Event(at, input, res, "action")
    /\ pc' = run_menu_arm(res)
    /\ mres' = IF IsOk(res) THEN mres ELSE res

\* run_app with no subcommand: run_menu
MenuStart ==
    /\ pc = "shell"
    /\ pc' = "select_action"
    /\ UNCHANGED <<file, git, snap, entered, shown, mres>>
    /\ MenuFrame

\* a Select or Text prompt returns an InquireError (the user cancels)
MenuCancel ==
    /\ pc \in {"select_action", "select_switch", "select_delete"} \cup Prompts
    /\ shown' = Event(pc, <<>>, Inquire,
                      IF pc \in Prompts THEN "prompt" ELSE "action")
    /\ pc' = IF pc \in Prompts
             THEN run_menu_arm(prompt_until_valid(Cancelled, Ok).res)
             ELSE run_menu_arm(Inquire)
    /\ mres' = Inquire
    /\ UNCHANGED <<file, git, snap, entered>>
    /\ MenuFrame

MenuQuit ==
    /\ pc = "select_action"
    /\ shown' = Event(pc, <<>>, Ok, "action")
    /\ pc' = "exited"
    /\ mres' = Ok
    /\ UNCHANGED <<file, git, snap, entered>>
    /\ MenuFrame

MenuCurrent ==
    /\ pc = "select_action"
    /\ \E get1 \in BOOLEAN, get2 \in BOOLEAN :
          MenuArm(pc, <<>>,
                  show_current_user(file, git, Env(TRUE, TRUE, TRUE, get1, get2)).res)
    /\ UNCHANGED <<file, git, snap, entered>>
    /\ MenuFrame

MenuList ==
    /\ pc = "select_action"
    /\ MenuArm(pc, <<>>, list_all_users(file, git).res)
    /\ UNCHANGED <<file, git, snap, entered>>
    /\ MenuFrame

\* menu_switch_user and menu_delete_user up to their Select prompt
MenuPick(to) ==
    /\ pc = "select_action"
    /\ LET ld == load_users(file)
           res == IF ~IsOk(ld.res) THEN ld.res ELSE check_if_users_exist(ld.users)
       IN  /\ shown' = Event(pc, <<>>, res, "action")
           /\ pc' = IF IsOk(res) THEN to ELSE run_menu_arm(res)
           /\ mres' = IF IsOk(res) THEN mres ELSE res
           /\ snap' = ld.users
           /\ entered' = <<>>
    /\ UNCHANGED <<file, git>>
    /\ MenuFrame

MenuSwitch == MenuPick("select_switch")

MenuDelete == MenuPick("select_delete")

\* menu_switch_user from its Select prompt on
MenuSwitchSelect ==
    /\ pc = "select_switch"
    /\ \E k \in 1..Len(build_alias_list(snap)) :
          LET alias == build_alias_list(snap)[k]
          IN  IF alias # BACK_OPTION
              THEN \E set1 \in SetOutcomes(cwdInRepo), set2 \in SetOutcomes(cwdInRepo) :
                      LET d == switch_user(file, git, alias,
                                           Env(TRUE, set1, set2, TRUE, TRUE))
                      IN  /\ MenuArm(pc, alias, d.res)
                          /\ git' = d.git
              ELSE /\ MenuArm(pc, alias, Ok)
                   /\ git' = git
    /\ UNCHANGED <<file, snap, entered>>
    /\ MenuFrame

\* menu_delete_user from its Select prompt on
MenuDeleteSelect ==
    /\ pc = "select_delete"
    /\ \E k \in 1..Len(build_alias_list(snap)) :
          LET alias == build_alias_list(snap)[k]
          IN  IF alias # BACK_OPTION
              THEN \E io \in BOOLEAN :
                      LET d == delete_user(file, git, alias,
                                           Env(io, TRUE, TRUE, TRUE, TRUE))
                      IN  /\ MenuArm(pc, alias, d.res)
                          /\ file' = d.file
              ELSE /\ MenuArm(pc, alias, Ok)
                   /\ file' = file
    /\ UNCHANGED <<git, snap, entered>>
    /\ MenuFrame

\* menu_add_user up to its first prompt
MenuAdd ==
    /\ pc = "select_action"
    /\ LET ld == load_users(file)
       IN  /\ shown' = Event(pc, <<>>, ld.res, "action")
           /\ pc' = IF IsOk(ld.res) THEN "prompt_username" ELSE run_menu_arm(ld.res)
           /\ mres' = IF IsOk(ld.res) THEN mres ELSE ld.res
           /\ snap' = ld.users
           /\ entered' = <<>>
    /\ UNCHANGED <<file, git>>
    /\ MenuFrame

\* one round of a prompt of menu_add_user that is followed by another prompt
PromptRound(at, input, v, to) ==
    /\ pc = at
    /\ LET r == prompt_until_valid(Typed(input), v)
       IN  /\ shown' = Event(at, input, v, "prompt")
           /\ pc' = IF r.to = "again" THEN at
                    ELSE IF r.to = "return" THEN to
                    ELSE run_menu_arm(r.res)
           /\ entered' = IF r.to = "return" THEN Append(entered, input) ELSE entered
           /\ mres' = IF r.to = "abort" THEN r.res ELSE mres
    /\ UNCHANGED <<file, git, snap>>
    /\ MenuFrame

PromptUsername ==
    \E input \in PromptNames :
        PromptRound("prompt_username", input,
                    validate_input_username(input, snap), "prompt_email")

PromptEmail ==
    \E input \in PromptEmails :
        PromptRound("prompt_email", input,
                    validate_input_email(input, snap), "prompt_alias")

\* one round of the alias prompt; an accepted alias is followed by add_user
PromptAlias ==
    /\ pc = "prompt_alias"
    /\ \E input \in PromptAliases, io \in BOOLEAN :
          LET v == validate_input_alias(input, snap)
              r == prompt_until_valid(Typed(input), v)
              d == add_user(file, git, entered[1], entered[2], input,
                            Env(io, TRUE, TRUE, TRUE, TRUE))
          IN  IF r.to = "return"
              THEN /\ MenuArm(pc, input, d.res)
                   /\ file' = d.file
                   /\ entered' = Append(entered, input)
              ELSE /\ shown' = Event(pc, input, v, "prompt")
                   /\ pc' = IF r.to = "again" THEN pc ELSE run_menu_arm(r.res)
                   /\ mres' = IF r.to = "abort" THEN r.res ELSE mres
                   /\ UNCHANGED <<file, entered>>
    /\ UNCHANGED <<git, snap>>
    /\ MenuFrame

\* the tool run from another terminal while the menu waits for input
OtherCmds ==
    {Cmd("add", NameAl, MailAl, AliasW), Cmd("delete", <<>>, <<>>, AliasW)}

MenuOther ==
    /\ \E cmd \in OtherCmds :
          LET d == main(cmd, file, git, Env(TRUE, TRUE, TRUE, TRUE, TRUE))
          IN  /\ IsOk(d.res)
              /\ Len(d.file.users) <= MaxUsers
              /\ file' = d.file
    /\ UNCHANGED <<git, pc, snap, entered, shown, mres>>
    /\ MenuFrame

MenuFiles ==
    {FileAbsent, FileGarbage}
    \cup {FileJson("pretty", us) :
            us \in SeqsUpTo({GitUserProfile(NameAl, MailAl, AliasW),
                             GitUserProfile(NameBo, MailBo, AliasH)}, 1)}

InitMenu ==
    /\ file \in MenuFiles
    /\ cwdInRepo = TRUE
    /\ git = InitGit
    /\ last = NoInvocation
    /\ MenuIdle
    /\ ConcIdle

NextMenu ==
    \/ MenuStart
    \/ MenuCancel
    \/ MenuQuit
    \/ MenuCurrent
    \/ MenuList
    \/ MenuSwitch
    \/ MenuDelete
    \/ MenuSwitchSelect
    \/ MenuDeleteSelect
    \/ MenuAdd
    \/ PromptUsername
    \/ PromptEmail
    \/ PromptAlias
    \/ MenuOther

SpecMenu == InitMenu /\ [][NextMenu]_vars

\* C10: a Validation error raised by the validation of a prompt is shown and
\* the same prompt is issued again, the menu going on, so the inputs the
\* prompts returned all passed their validation; every other error, a
\* non-Validation error in a prompt or an error of any kind raised outside a
\* prompt, ends the action and the menu with that error, nothing being
\* tried again.
C10_MenuErrors ==
    /\ (shown.where = "prompt" /\ shown.res.kind = "Validation") =>
          /\ pc = shown.at
          /\ pc \in Prompts
          /\ mres = Ok
    /\ (~IsOk(shown.res) /\ ~(shown.where = "prompt" /\ shown.res.kind = "Validation")) =>
          /\ pc = "exited"
          /\ mres = shown.res
    /\ pc = "exited" => mres = shown.res
    /\ Len(entered) >= 1 => IsOk(validate_input_username(entered[1], snap))
    /\ Len(entered) >= 2 => IsOk(validate_input_email(entered[2], snap))
    /\ Len(entered) >= 3 => IsOk(validate_input_alias(entered[3], snap))

\* all three prompts accepted their input and add_user, run afterwards on a
\* file changed meanwhile, raised a Validation error that ended the menu
C10_Witness ==
    /\ pc = "exited"
    /\ shown.at = "prompt_alias"
    /\ shown.where = "action"
    /\ shown.res.kind = "Validation"
    /\ Len(entered) = 3
    /\ mres = shown.res

\* an invalid e-mail was typed and the e-mail prompt is issued again
C10_Reprompt ==
    /\ pc = "prompt_email"
    /\ shown = Event("prompt_email", MailBad, Validation("Invalid email format"), "prompt")
    /\ Len(entered) = 1

-----------------------------------------------------------------------------
(* Further properties of one invocation *)

\* C11: switch_user("back") runs its checks in the order load, non-empty
\* check, reserved-value check, lookup: on a non-empty collection it fails
\* with the Validation error for the reserved value, never with
\* UserNotFound, and issues no set call, whether or not a profile with the
\* alias "back" is stored; on an empty store it fails with the no-users
\* error instead.
C11_SwitchBack ==
    (Ran("switch") /\ last.cmd.a = BACK_OPTION) =>
        /\ last.calls = <<>>
        /\ git = last.gitBefore
        /\ last.res.kind # "UserNotFound"
        /\ ~Loadable(last.fileBefore) => last.res = SerdeJson
        /\ (Loadable(last.fileBefore) /\ Before = <<>>) =>
              last.res = Validation("no users found")
        /\ (Loadable(last.fileBefore) /\ Before # <<>>) =>
              last.res = Validation("invalid alias for switching")

\* a profile with the alias "back" is stored and the switch to it was refused
C11_Witness ==
    /\ Ran("switch")
    /\ last.cmd.a = BACK_OPTION
    /\ HasBack(Before)
    /\ cwdInRepo
    /\ last.res = Validation("invalid alias for switching")
    /\ last.calls = <<>>

-----------------------------------------------------------------------------
(* add_user as a function of its arguments and the stored collection: one
   invocation from every backing file, on arguments at and beyond every
   limit of the validators *)

AddUsernames == {<<>>, NameAl, NameBo, NameMax, NameLong}
AddEmails == {<<>>, MailAl, MailBo, MailBad, MailMax, MailWide, MailLong}
AddAliases == {<<>>, AliasW, AliasH, BACK_OPTION, AliasMax, AliasLong}

InitAdd ==
    /\ file \in InitFiles
    /\ cwdInRepo = TRUE
    /\ git = InitGit
    /\ last = NoInvocation
    /\ MenuIdle
    /\ ConcIdle

AddOnce ==
    /\ last = NoInvocation
    /\ \E u \in AddUsernames, e \in AddEmails, a \in AddAliases :
          \E io \in IoOutcomes(Cmd("add", u, e, a), file, git) :
             LET cmd == Cmd("add", u, e, a)
                 d == main(cmd, file, git, Env(io, TRUE, TRUE, TRUE, TRUE))
             IN  /\ file' = d.file
                 /\ git' = d.git
                 /\ last' = Invocation(cmd, cwdInRepo, file, git, d)
    /\ UNCHANGED <<cwdInRepo, pc, snap, entered, shown, mres,
                   cpc, cargs, cusers, cres, wlog>>

NextAdd == AddOnce

SpecAdd == InitAdd /\ [][NextAdd]_vars

\* the rules of the reference validator, in their fixed order
ReferenceRules(u, e, a, us) ==
    << [fails |-> Len(u) = 0, reason |-> "Username cannot be empty"],
       [fails |-> Len(u) > 30, reason |-> "username too long"],
       [fails |-> \E i \in 1..Len(us) : us[i].git_username = u,
        reason |-> "Username already exists"],
       [fails |-> Len(e) = 0, reason |-> "Email cannot be empty"],
       [fails |-> Len(e) > 100, reason |-> "email too long"],
       [fails |-> ~validate_email(e), reason |-> "Invalid email format"],
       [fails |-> \E i \in 1..Len(us) : us[i].git_email = e,
        reason |-> "Email already exists"],
       [fails |-> Len(a) = 0, reason |-> "Alias cannot be empty"],
       [fails |-> Len(a) > 30, reason |-> "Alias too long"],
       [fails |-> a = <<"b", "a", "c", "k">>, reason |-> "Alias cannot be 'back'"],
       [fails |-> \E i \in 1..Len(us) : us[i].user_alias = a,
        reason |-> "Alias already exists"] >>

\* the reason of the first rule that fails, or Ok when none does
ReferenceValidator(u, e, a, us) ==
    LET rules == ReferenceRules(u, e, a, us)
        failing == {k \in 1..Len(rules) : rules[k].fails}
    IN  IF failing = {} THEN Ok
        ELSE Validation(rules[CHOOSE k \in failing : \A j \in failing : k <= j].reason)

\* C12: on a loaded collection add_user's outcome is that of the reference
\* validator, which checks username (empty, too long, stored), e-mail
\* (empty, too long, ill-formed, stored) and alias (empty, too long, "back",
\* stored) in this order and reports the first rule that fails: a failing
\* rule gives its Validation reason, no save and an unchanged file; when no
\* rule fails, and only then, the collection with the profile appended is
\* handed to save_users, which stores it unless the write fails.
C12_AddReference ==
    (Ran("add") /\ Loadable(last.fileBefore)) =>
        LET ref == ReferenceValidator(last.cmd.u, last.cmd.e, last.cmd.a, Before)
            prof == GitUserProfile(last.cmd.u, last.cmd.e, last.cmd.a)
        IN  /\ (last.saves = 1) <=> IsOk(ref)
            /\ ~IsOk(ref) => /\ last.res = ref
                             /\ last.saves = 0
                             /\ file = last.fileBefore
            /\ IsOk(ref) => /\ last.res \in {Ok, Io}
                            /\ IsOk(last.res) =>
                                  file = to_string_pretty(Append(Before, prof))
                            /\ ~IsOk(last.res) => file = last.fileBefore

\* a username of exactly the greatest length passes, and of the two rules
\* that fail after it (stored e-mail, reserved alias) the first is reported
C12_Witness ==
    /\ Ran("add")
    /\ Before = <<GitUserProfile(NameAl, MailAl, AliasW)>>
    /\ last.cmd = Cmd("add", NameMax, MailAl, BACK_OPTION)
    /\ last.res = Validation("Email already exists")
    /\ file = last.fileBefore

-----------------------------------------------------------------------------
(* delete_user, and add_user of what it removed *)

\* the entries of us whose alias is not a, in their order in us
Others(us, a) ==
    LET kept == {i \in 1..Len(us) : us[i].user_alias # a}
        nth(k) == CHOOSE i \in kept : Cardinality({j \in kept : j <= i}) = k
    IN  [k \in 1..Cardinality(kept) |-> us[nth(k)]]

AliasUnique(us) ==
    \A i \in 1..Len(us) : \A j \in 1..Len(us) :
        i # j => us[i].user_alias # us[j].user_alias

\* the values of the profile satisfy the rules of add_user that do not
\* depend on the stored collection
WellFormed(p) ==
    /\ Len(p.git_username) \in 1..30
    /\ Len(p.git_email) \in 1..100
    /\ validate_email(p.git_email)
    /\ Len(p.user_alias) \in 1..30
    /\ p.user_alias # <<"b", "a", "c", "k">>

\* add_user of the profile p, run now, its write succeeding
LaterAdd(p) ==
    add_user(file, git, p.git_username, p.git_email, p.user_alias,
             Env(TRUE, TRUE, TRUE, TRUE, TRUE))

-----------------------------------------------------------------------------
(* Uniqueness under concurrent invocations *)

\* C14: however the load, validate/modify and save steps of concurrent
\* add_user and delete_user invocations interleave on a file that starts
\* without duplicates, each save overwriting the whole file at once, the
\* stored collection never has two profiles with the same alias, username
\* or e-mail, and neither has any collection an invocation is about to
\* save: updates are lost, duplicates are not introduced.
C14_ConcUniqueness ==
    /\ Loadable(file)
    /\ DupFree(load_users(file).users)
    /\ \A p \in DOMAIN cpc :
          cpc[p] \in {"work", "save"} => DupFree(cusers[p])

\* two add_user invocations of profiles with the same username have both
\* loaded the empty collection, both saved and both returned success: the
\* file holds the profile of the one that saved last and no duplicate
C14_Witness ==
    \E p \in DOMAIN cpc : \E q \in DOMAIN cpc :
        /\ AddedOk(p) /\ AddedOk(q)
        /\ cargs[p] = Cmd("add", NameAl, MailAl, AliasW)
        /\ cargs[q] = Cmd("add", NameAl, MailBo, AliasH)
        /\ wlog = <<p, q>>
        /\ file = to_string_pretty(<<Profile(cargs[q])>>)

-----------------------------------------------------------------------------
(* What each operation leaves alone *)

\* C15: switch_user, list_all_users and show_current_user never write the
\* profile file, whether they succeed or fail; add_user and delete_user
\* issue no git-config call and leave user.name and user.email as they
\* were; show_current_user does not read the profile file: it issues get
\* calls only and, when they succeed, reports the pair git holds, also when
\* the store is empty, absent or unparseable.
C15_Frame ==
    /\ (Ran("switch") \/ Ran("list") \/ Ran("current")) =>
          /\ file = last.fileBefore
          /\ last.saves = 0
    /\ (Ran("add") \/ Ran("delete")) =>
          /\ last.calls = <<>>
          /\ git = last.gitBefore
    /\ Ran("current") =>
          /\ last.loads = 0
          /\ git = last.gitBefore
          /\ Len(last.calls) \in 1..2
          /\ \A i \in 1..Len(last.calls) : last.calls[i].fn = "get"
          /\ IsOk(last.res) <=> \A i \in 1..Len(last.calls) : last.calls[i].ok
          /\ ~IsOk(last.res) => last.res = GitCommand /\ last.out = <<>>
          /\ IsOk(last.res) =>
                /\ Len(last.calls) = 2
                /\ last.out = <<Line("current user:",
                                     GitUserProfile(last.gitBefore.name,
                                                    last.gitBefore.email, <<>>))>>

\* after a switch to a profile and the deletion of that profile the store
\* is empty, and show_current_user reports the pair that was switched to
C15_Witness ==
    /\ Ran("current")
    /\ last.fileBefore = to_string_pretty(<<>>)
    /\ last.gitBefore = [name |-> NameAl, email |-> MailAl]
    /\ IsOk(last.res)
    /\ last.out = <<Line("current user:", GitUserProfile(NameAl, MailAl, <<>>))>>
    /\ file = last.fileBefore

=============================================================================
